---- MODULE Spec2Model ----
(***************************************************************************)
(* A model of the video backend of main.py: the "video" collection of the  *)
(* document store, the three request handlers generate_preview,            *)
(* start_video and list_videos, and the store round-trips of start_video   *)
(* interleaved between two clients.                                        *)
(*                                                                         *)
(* Strings the code computes on (prompt, video_id, the display text) are   *)
(* sequences of one-character strings.  The URL template of the f-string   *)
(* is one literal element in front of the display text.                    *)
(***************************************************************************)
EXTENDS Integers, Sequences, FiniteSets, TLC

VARIABLES db, video, pc, cur, conc, last

vars == <<db, video, pc, cur, conc, last>>

(***************************************************************************)
(* Bounds of the model.                                                    *)
(***************************************************************************)
\* The most records the collection holds in the model.
MaxRecords == 2

\* The largest limit a list request asks for.
MaxLimit == 3

\* The clients whose requests interleave.
Clients == {1, 2}

(***************************************************************************)
(* Strings.                                                                *)
(***************************************************************************)
RECURSIVE Rep(_, _)
Rep(s, n) == IF n = 0 THEN <<>> ELSE s \o Rep(s, n - 1)

\* The characters str.strip() removes.
Whitespace == {" ", "\t", "\n"}

RECURSIVE LStrip(_)
LStrip(s) == IF s # <<>> /\ Head(s) \in Whitespace THEN LStrip(Tail(s)) ELSE s

RECURSIVE RStrip(_)
RStrip(s) ==
    IF s # <<>> /\ s[Len(s)] \in Whitespace
    THEN RStrip(SubSeq(s, 1, Len(s) - 1))
    ELSE s

\* The prompt taken as it was sent.
MutStripNothing(s) == s

\* payload.prompt.strip()
Strip(s) == RStrip(LStrip(s))

\* text.replace(' ', '+')
ReplaceSpaces(s) == [i \in 1..Len(s) |-> IF s[i] = " " THEN "+" ELSE s[i]]

\* The length past which the display text is cut.
TruncateAt == 40

Ellipsis == <<".", ".", ".">>

\* The cut without its "...".
MutDisplayTextNoEllipsis(prompt) ==
    IF Len(prompt) > TruncateAt THEN SubSeq(prompt, 1, TruncateAt) ELSE prompt

\* (prompt[:40] + "...") if len(prompt) > 40 else prompt
DisplayText(prompt) ==
    IF Len(prompt) > TruncateAt
    THEN SubSeq(prompt, 1, TruncateAt) \o Ellipsis
    ELSE prompt

PlaceholderTemplate == "https://dummyimage.com/1024x576/111827/ffffff&text="

\* f"https://dummyimage.com/...&text={text.replace(' ', '+')}"
Placeholder(prompt) == <<PlaceholderTemplate>> \o ReplaceSpaces(DisplayText(prompt))

sample_video == "https://sample-videos.com/video321/mp4/720/big_buck_bunny_720p_1mb.mp4"

(***************************************************************************)
(* Store identifiers: bson.ObjectId holds 12 bytes; ObjectId(str) reads 24 *)
(* hexadecimal digits of either case and str(ObjectId) writes them in      *)
(* lower case.                                                             *)
(***************************************************************************)
HexDigits == <<"0", "1", "2", "3", "4", "5", "6", "7", "8", "9", "a", "b", "c", "d", "e", "f">>

UpperHex == [c \in {"a", "b", "c", "d", "e", "f"} |->
                CASE c = "a" -> "A" [] c = "b" -> "B" [] c = "c" -> "C"
                  [] c = "d" -> "D" [] c = "e" -> "E" [] c = "f" -> "F"]

IsHexChar(c) ==
    \/ \E i \in 1..16 : HexDigits[i] = c
    \/ \E l \in DOMAIN UpperHex : UpperHex[l] = c

\* The value of a hexadecimal digit (0 for any other character, which
\* ObjectId never reads: it raises first).
HexVal(c) ==
    IF \E i \in 1..16 : HexDigits[i] = c
    THEN (CHOOSE i \in 1..16 : HexDigits[i] = c) - 1
    ELSE IF \E i \in 11..16 : UpperHex[HexDigits[i]] = c
    THEN (CHOOSE i \in 11..16 : UpperHex[HexDigits[i]] = c) - 1
    ELSE 0

OidBytes == 12

\* The length tested and the digits not.
MutIsValidOidLengthOnly(vid) == Len(vid) = 2 * OidBytes

\* Whether ObjectId(vid) returns (it raises InvalidId otherwise).
IsValidOid(vid) ==
    /\ Len(vid) = 2 * OidBytes
    /\ \A i \in 1..Len(vid) : IsHexChar(vid[i])

\* _id = ObjectId(vid), for a vid ObjectId accepts.
ObjectId(vid) ==
    [i \in 1..OidBytes |-> 16 * HexVal(vid[2 * i - 1]) + HexVal(vid[2 * i])]

\* str(oid)
StrOid(oid) ==
    [k \in 1..(2 * OidBytes) |->
        IF k % 2 = 1
        THEN HexDigits[(oid[(k + 1) \div 2] \div 16) + 1]
        ELSE HexDigits[(oid[k \div 2] % 16) + 1]]

\* The identifier the store assigns to the n-th document inserted.
NewObjectId(n) == [i \in 1..OidBytes |-> IF i = OidBytes THEN 170 + n ELSE 0]

(***************************************************************************)
(* The collection db["video"]: a sequence of documents in insertion order. *)
(* A document is a record; a field the document does not hold is not in    *)
(* its domain.                                                             *)
(***************************************************************************)
\* The position of the first document with this _id, 0 when there is none.
FindIndex(coll, oid) ==
    IF \E i \in 1..Len(coll) : coll[i]._id = oid
    THEN CHOOSE i \in 1..Len(coll) :
            /\ coll[i]._id = oid
            /\ \A j \in 1..(i - 1) : coll[j]._id # oid
    ELSE 0

\* {"$set": fields} applied to one document.
SetFields(doc, fields) ==
    [f \in DOMAIN doc \cup DOMAIN fields |->
        IF f \in DOMAIN fields THEN fields[f] ELSE doc[f]]

\* The update with an empty filter, applied to every document.
MutUpdateOneEveryDocument(coll, oid, fields) ==
    [i \in 1..Len(coll) |-> SetFields(coll[i], fields)]

\* The update without "$set": the document is replaced by the fields.
MutUpdateOneReplaces(coll, oid, fields) ==
    LET k == FindIndex(coll, oid)
    IN  [i \in 1..Len(coll) |->
            IF i = k THEN SetFields([_id |-> coll[i]._id], fields) ELSE coll[i]]

\* The update with an empty filter, applied to the first document.
MutUpdateOneFirstDocument(coll, oid, fields) ==
    [i \in 1..Len(coll) |-> IF i = 1 THEN SetFields(coll[i], fields) ELSE coll[i]]

\* db["video"].update_one({"_id": oid}, {"$set": fields})
UpdateOne(coll, oid, fields) ==
    LET k == FindIndex(coll, oid)
    IN  [i \in 1..Len(coll) |-> IF i = k THEN SetFields(coll[i], fields) ELSE coll[i]]

\* Video(prompt=..., preview_image_url=..., status=...)
Video(prompt, preview_image_url, status) ==
    [prompt |-> prompt, preview_image_url |-> preview_image_url, status |-> status]

\* create_document("video", video): the collection after the insert.
CreateDocument(coll, doc) ==
    Append(coll, SetFields(doc, [_id |-> NewObjectId(Len(coll) + 1)]))

\* create_document raises when there is no live connection.
CreateDocumentFails == ~db

\* get_documents("video", {}, limit)
GetDocuments(coll, limit) ==
    SubSeq(coll, 1, IF limit < Len(coll) THEN limit ELSE Len(coll))

\* The document returned as the store gave it.
MutAttachIdKeepsUnderscoreId(d) == d

\* d["id"] = str(d.pop("_id"))
AttachId(d) ==
    [f \in (DOMAIN d \ {"_id"}) \cup {"id"} |->
        IF f = "id" THEN StrOid(d._id) ELSE d[f]]

\* The $set without video_url.
MutReadyFieldsStatusOnly == [status |-> "ready"]

\* The $set with a status outside the two the entity has.
MutReadyFieldsDone == [status |-> "done", video_url |-> sample_video]

\* {"$set": {"status": "ready", "video_url": sample_video}}
ReadyFields == [status |-> "ready", video_url |-> sample_video]

(***************************************************************************)
(* Requests.  The inputs the clients send.                                 *)
(***************************************************************************)
\* 41 characters, the last one not a space: cut to 40 with the ellipsis.
LongPrompt == Rep(<<"a", " ">>, 20) \o <<"z">>

\* 41 characters of which the last is a space: 40 once stripped.
PaddedPrompt == Rep(<<"a", "b">>, 20) \o <<" ">>

CatPrompt == <<"a", " ", "c", "a", "t">>

\* The prompts of the lifecycle specification.
Prompts == { <<" ", "\t">>, <<" ">> \o CatPrompt, LongPrompt }

\* The prompts of the specification of generate_preview alone.
PreviewPrompts ==
    { <<>>, <<" ", "\t">>, CatPrompt, <<" ">> \o CatPrompt, <<"a", "\t", "b">>,
      LongPrompt, <<"\n">> \o LongPrompt \o <<" ">>, PaddedPrompt,
      Rep(<<"a", "b">>, 20), Rep(<<" ", "x">>, 22) }

\* The text of the identifier of the n-th document, as a client holds it.
IdText(n) == StrOid(NewObjectId(n))

\* The same text with its letters in upper case.
UpperText(s) == [i \in 1..Len(s) |-> IF s[i] \in DOMAIN UpperHex THEN UpperHex[s[i]] ELSE s[i]]

NotAnId == <<"n", "o", "t", "-", "a", "-", "v", "a", "l", "i", "d", "-", "i", "d">>

\* 24 characters, one of them no hexadecimal digit.
NotHex == Rep(<<"0">>, 23) \o <<"g">>

VideoIds ==
    {IdText(n) : n \in 1..(MaxRecords + 1)}
        \cup {UpperText(IdText(1)), <<>>, NotAnId, NotHex}

Limits == 1..MaxLimit

(***************************************************************************)
(* The response of the last request that completed, with the request it    *)
(* answers.  body is the JSON the handler returns: a sequence of objects   *)
(* for list_videos, one object (as a sequence of one) for the other two,   *)
(* empty for an error.  trips counts the store round-trips the request     *)
(* made; conc says whether another start_video request for the same        *)
(* identifier was in flight while this one was.  For a start_video request *)
(* that passed its checks, video_id is the text of the identifier it read. *)
(***************************************************************************)
NoRequest ==
    [op |-> "none", prompt |-> <<>>, video_id |-> <<>>, limit |-> 0,
     code |-> 0, detail |-> "", body |-> <<>>, trips |-> 0, conc |-> FALSE]

Response(p, op, arg, code, detail, body, trips) ==
    [op |-> op,
     prompt |-> IF op = "generate_preview" THEN arg ELSE <<>>,
     video_id |-> IF op = "start_video" THEN arg ELSE <<>>,
     limit |-> IF op = "list_videos" THEN arg ELSE 0,
     code |-> code, detail |-> detail, body |-> body, trips |-> trips,
     conc |-> IF op = "start_video" /\ code = 200 THEN conc[p] ELSE FALSE]

\* db is None
DbIsNone == ~db

Init ==
    /\ db \in BOOLEAN
    /\ video = <<>>
    /\ pc = [p \in Clients |-> "idle"]
    /\ cur = [p \in Clients |-> <<>>]
    /\ conc = [p \in Clients |-> FALSE]
    /\ last = NoRequest

(***************************************************************************)
(* POST /api/generate-preview                                              *)
(***************************************************************************)
GeneratePreview(p, raw) ==
    /\ pc[p] = "idle"
    /\ LET prompt == Strip(raw)
           placeholder == Placeholder(prompt)
       IN  IF prompt = <<>>
           THEN /\ last' = Response(p, "generate_preview", raw, 400, "Prompt is required", <<>>, 0)
                /\ UNCHANGED video
           ELSE IF CreateDocumentFails
           THEN \* the exception leaves the handler
                /\ last' = Response(p, "generate_preview", raw, 500, "Internal Server Error", <<>>, 0)
                /\ UNCHANGED video
           ELSE /\ Len(video) < MaxRecords
                /\ video' = CreateDocument(video, Video(prompt, placeholder, "preview"))
                /\ last' = Response(p, "generate_preview", raw, 200, "",
                                    <<[id |-> StrOid(video'[Len(video')]._id),
                                       preview_image_url |-> placeholder,
                                       status |-> "preview"]>>, 1)
    /\ UNCHANGED <<db, pc, cur, conc>>

(***************************************************************************)
(* POST /api/start-video: the checks and the first find_one, then the      *)
(* update_one, then the second find_one and the response.  The tests of    *)
(* lines 57-67 read nothing another request writes, so they are one step   *)
(* with the first find_one.                                                *)
(***************************************************************************)
\* The same three tests with the identifier parsed before db is tested.
MutStartVideoChecksIdFirst(vid) ==
    IF vid = <<>>
    THEN [code |-> 400, detail |-> "video_id is required"]
    ELSE IF ~IsValidOid(vid)
    THEN [code |-> 400, detail |-> "Invalid video_id"]
    ELSE IF DbIsNone
    THEN [code |-> 500, detail |-> "Database not available"]
    ELSE [code |-> 0, detail |-> ""]

\* The HTTPException the tests before the first find_one raise; code 0
\* when they all pass.
StartVideoChecks(vid) ==
    IF vid = <<>>
    THEN [code |-> 400, detail |-> "video_id is required"]
    ELSE IF DbIsNone
    THEN [code |-> 500, detail |-> "Database not available"]
    ELSE IF ~IsValidOid(vid)
    THEN [code |-> 400, detail |-> "Invalid video_id"]
    ELSE [code |-> 0, detail |-> ""]

StartVideo(p, vid) ==
    /\ pc[p] = "idle"
    /\ IF StartVideoChecks(vid).code # 0
       THEN /\ last' = Response(p, "start_video", vid, StartVideoChecks(vid).code,
                                StartVideoChecks(vid).detail, <<>>, 0)
            /\ UNCHANGED <<pc, cur, conc>>
       ELSE IF FindIndex(video, ObjectId(vid)) = 0
       THEN /\ last' = Response(p, "start_video", vid, 404, "Video not found", <<>>, 1)
            /\ UNCHANGED <<pc, cur, conc>>
       ELSE LET _id == ObjectId(vid)
                others == {q \in Clients \ {p} : pc[q] # "idle" /\ cur[q] = _id}
            IN  /\ pc' = [pc EXCEPT ![p] = "update"]
                /\ cur' = [cur EXCEPT ![p] = _id]
                /\ conc' = [q \in Clients |->
                              IF q = p THEN others # {}
                              ELSE IF q \in others THEN TRUE ELSE conc[q]]
                /\ UNCHANGED last
    /\ UNCHANGED <<db, video>>

StartVideoUpdate(p) ==
    /\ pc[p] = "update"
    /\ video' = UpdateOne(video, cur[p], ReadyFields)
    /\ pc' = [pc EXCEPT ![p] = "reread"]
    /\ UNCHANGED <<db, cur, conc, last>>

StartVideoReturn(p) ==
    /\ pc[p] = "reread"
    /\ LET k == FindIndex(video, cur[p])
       IN  IF k = 0
           THEN \* updated is None: updated.pop raises
                last' = Response(p, "start_video", StrOid(cur[p]), 500, "Internal Server Error", <<>>, 3)
           ELSE last' = Response(p, "start_video", StrOid(cur[p]), 200, "", <<AttachId(video[k])>>, 3)
    /\ pc' = [pc EXCEPT ![p] = "idle"]
    /\ UNCHANGED <<db, video, cur, conc>>

(***************************************************************************)
(* GET /api/videos                                                         *)
(***************************************************************************)
ListVideos(p, limit) ==
    /\ pc[p] = "idle"
    /\ IF DbIsNone
       THEN last' = Response(p, "list_videos", limit, 500, "Database not available", <<>>, 0)
       ELSE LET docs == GetDocuments(video, limit)
            IN  last' = Response(p, "list_videos", limit, 200, "",
                                 [i \in 1..Len(docs) |-> AttachId(docs[i])], 1)
    /\ UNCHANGED <<db, video, pc, cur, conc>>

Next ==
    \E p \in Clients :
        \/ \E raw \in Prompts : GeneratePreview(p, raw)
        \/ \E vid \in VideoIds : StartVideo(p, vid)
        \/ StartVideoUpdate(p)
        \/ StartVideoReturn(p)
        \/ \E limit \in Limits : ListVideos(p, limit)

Spec == Init /\ [][Next]_vars

(***************************************************************************)
(* generate_preview alone, over more prompts.                              *)
(***************************************************************************)
NextPreview == \E p \in Clients : \E raw \in PreviewPrompts : GeneratePreview(p, raw)

SpecPreview == Init /\ [][NextPreview]_vars

(***************************************************************************)
(* Properties.                                                             *)
(***************************************************************************)
\* A request completed in this step: its response is the new value of last.
Answered(op) == last' # last /\ last'.op = op

\* The document as one successful start_video leaves it.
Started(doc) ==
    [_id |-> doc._id, prompt |-> doc.prompt, preview_image_url |-> doc.preview_image_url,
     status |-> "ready", video_url |-> sample_video]

\* C1: over every step, a record that exists keeps its place and identifier
\* and its status either stays as it is or moves from preview to ready; a
\* record the step creates has status preview.  So no record leaves ready.
C1_StatusMonotone ==
    [][ /\ Len(video') >= Len(video)
        /\ \A i \in 1..Len(video) :
              /\ video'[i]._id = video[i]._id
              /\ \/ video'[i].status = video[i].status
                 \/ video[i].status = "preview" /\ video'[i].status = "ready"
        /\ \A i \in (Len(video) + 1)..Len(video') : video'[i].status = "preview"
      ]_vars

\* C1 witness: a start_video request has returned, one record is ready and
\* another is still in preview.
C1_Witness ==
    /\ last.op = "start_video" /\ last.code = 200
    /\ \E i, j \in 1..Len(video) : video[i].status = "ready" /\ video[j].status = "preview"

\* C2: in every state every record has no video_url exactly when its status
\* is preview, and a non-empty video_url exactly when its status is ready.
C2_UrlMatchesStatus ==
    \A i \in 1..Len(video) :
        /\ video[i].status \in {"preview", "ready"}
        /\ video[i].status = "preview" <=> "video_url" \notin DOMAIN video[i]
        /\ video[i].status = "ready" <=>
              ("video_url" \in DOMAIN video[i] /\ video[i].video_url # "")

\* C2 witness: a start_video request is between its update_one and its second
\* find_one, with a ready and a preview record in the store.
C2_Witness ==
    /\ \E p \in Clients : pc[p] = "reread"
    /\ \E i, j \in 1..Len(video) : video[i].status = "ready" /\ video[j].status = "preview"

\* What the claims call a well-formed store identifier: 24 hexadecimal digits.
WellFormedId(vid) ==
    /\ Len(vid) = 24
    /\ \A i \in 1..Len(vid) :
          vid[i] \in {"0", "1", "2", "3", "4", "5", "6", "7", "8", "9",
                      "a", "b", "c", "d", "e", "f", "A", "B", "C", "D", "E", "F"}

LowerChar(c) ==
    IF \E l \in DOMAIN UpperHex : UpperHex[l] = c
    THEN CHOOSE l \in DOMAIN UpperHex : UpperHex[l] = c
    ELSE c

\* Some record of the collection has the identifier this text denotes.
Matches(coll, vid) ==
    \E i \in 1..Len(coll) :
        /\ Len(vid) = Len(StrOid(coll[i]._id))
        /\ \A k \in 1..Len(vid) : LowerChar(vid[k]) = StrOid(coll[i]._id)[k]

\* C3 as stated: a start_video request with an empty id is answered 400, one
\* with a malformed id 400, one with a well-formed id that matches no record
\* 404, and none of them changes the store.
C3_AsStated ==
    [][ Answered("start_video") =>
          /\ last'.video_id = <<>> => last'.code = 400 /\ video' = video
          /\ (last'.video_id # <<>> /\ ~WellFormedId(last'.video_id)) =>
                last'.code = 400 /\ video' = video
          /\ (WellFormedId(last'.video_id) /\ ~Matches(video, last'.video_id)) =>
                last'.code = 404 /\ video' = video
      ]_vars

\* C3 amended: an empty id is answered 400 always; with a live store
\* connection a malformed id is answered 400 and a well-formed id that matches
\* no record 404; with no connection both are answered 500.  None of these
\* requests changes the store.
C3_Rejections ==
    [][ Answered("start_video") =>
          /\ last'.video_id = <<>> => last'.code = 400 /\ video' = video
          /\ (last'.video_id # <<>> /\ ~WellFormedId(last'.video_id)) =>
                last'.code = (IF db THEN 400 ELSE 500) /\ video' = video
          /\ (WellFormedId(last'.video_id) /\ ~Matches(video, last'.video_id)) =>
                last'.code = (IF db THEN 404 ELSE 500) /\ video' = video
      ]_vars

\* C3 witness: a well-formed id was answered 404 while the store holds records.
C3_Witness ==
    /\ last.op = "start_video" /\ last.code = 404
    /\ WellFormedId(last.video_id)
    /\ video # <<>>

\* The JSON object start_video returns for a document.
ReadyBody(doc) ==
    [id |-> StrOid(doc._id), prompt |-> doc.prompt,
     preview_image_url |-> doc.preview_image_url,
     status |-> "ready", video_url |-> sample_video]

StoredFields == {"_id", "prompt", "preview_image_url", "status", "video_url"}

\* C4: when a start_video request for an existing record returns, the
\* response is 200 with that record, status ready and video_url the sample
\* URL, and the stored record holds the same values; the update_one of a
\* request that finds the record already ready leaves the store as it is, and
\* its response is the same object.
C4_StartVideoResult ==
    [][ /\ \A p \in Clients : (pc[p] = "reread" /\ pc'[p] = "idle") =>
              /\ last'.op = "start_video" /\ last'.code = 200
              /\ \E k \in 1..Len(video') :
                    /\ video'[k]._id = cur[p]
                    /\ DOMAIN video'[k] = StoredFields
                    /\ video'[k].status = "ready"
                    /\ video'[k].video_url = sample_video
                    /\ last'.body = <<ReadyBody(video'[k])>>
        /\ \A p \in Clients : (pc[p] = "update" /\ pc'[p] = "reread") =>
              \A k \in 1..Len(video) :
                  (video[k]._id = cur[p] /\ video[k].status = "ready") => video' = video
      ]_vars

\* C4 witness: two start_video requests for the same record, neither in
\* flight while the other was, have both returned.
C4_Witness ==
    /\ last.op = "start_video" /\ last.code = 200 /\ ~last.conc
    /\ \A p \in Clients : pc[p] = "idle" /\ ~conc[p] /\ cur[p] = ObjectId(last.video_id)

\* C8: a start_video request that was in flight together with another one
\* for the same identifier returns 200 with status ready and the sample URL,
\* and the stored record is the one a single call leaves.
C8_ConcurrentStarts ==
    [][ \A p \in Clients : (pc[p] = "reread" /\ pc'[p] = "idle" /\ conc[p]) =>
            /\ last'.op = "start_video" /\ last'.code = 200 /\ last'.conc
            /\ Len(last'.body) = 1
            /\ DOMAIN last'.body[1] = (StoredFields \ {"_id"}) \cup {"id"}
            /\ last'.body[1].status = "ready"
            /\ last'.body[1].video_url = sample_video
            /\ \E k \in 1..Len(video') :
                  /\ video'[k]._id = cur[p]
                  /\ DOMAIN video'[k] = StoredFields
                  /\ video'[k] = Started(video'[k])
                  /\ last'.body[1].prompt = video'[k].prompt
      ]_vars

\* C8 witness: both clients have returned from start_video requests for the
\* same record that were in flight at the same time.
C8_Witness ==
    /\ last.op = "start_video" /\ last.code = 200 /\ last.conc
    /\ \A p \in Clients : pc[p] = "idle" /\ conc[p] /\ cur[p] = ObjectId(last.video_id)

\* A prompt that is empty or holds only whitespace.
Blank(s) == \A i \in 1..Len(s) : s[i] \in {" ", "\t", "\n"}

\* C5: a generate_preview request whose prompt is empty or only whitespace is
\* answered 400 and the store is as it was before the request.
C5_BlankPromptRejected ==
    [][ (Answered("generate_preview") /\ Blank(last'.prompt)) =>
            /\ last'.code = 400
            /\ last'.body = <<>>
            /\ video' = video
      ]_vars

\* C5 witness: a whitespace-only prompt was answered 400 with records in the
\* store.
C5_Witness ==
    /\ last.op = "generate_preview" /\ last.code = 400
    /\ last.prompt # <<>>
    /\ video # <<>>

\* The prompt without its leading and trailing whitespace.
Trimmed(s) ==
    LET inner == {i \in 1..Len(s) : s[i] \notin {" ", "\t", "\n"}}
    IN  IF inner = {} THEN <<>>
        ELSE SubSeq(s, CHOOSE a \in inner : \A i \in inner : a <= i,
                       CHOOSE b \in inner : \A i \in inner : b >= i)

\* The display text the claim describes for a prompt: its first 40
\* characters, "..." after them when it is longer, every space a "+".
DisplayOf(s) ==
    [i \in 1..(IF Len(s) > 40 THEN 43 ELSE Len(s)) |->
        IF i > 40 THEN "." ELSE IF s[i] = " " THEN "+" ELSE s[i]]

UrlOf(s) == <<"https://dummyimage.com/1024x576/111827/ffffff&text=">> \o DisplayOf(s)

\* C6 as stated (with a live store connection): the preview_image_url returned
\* for a prompt that is not blank is the template followed by the display text
\* of the prompt as the caller sent it.
C6_AsStated ==
    (db /\ last.op = "generate_preview" /\ ~Blank(last.prompt)) =>
        /\ last.code = 200
        /\ Len(last.body) = 1
        /\ last.body[1].preview_image_url = UrlOf(last.prompt)

\* C6 amended: with a live store connection, a generate_preview request whose
\* prompt is not blank adds exactly one record, with a fresh identifier,
\* status preview, no video_url and the prompt without its leading and
\* trailing whitespace, and returns that identifier, status preview and the
\* template followed by the display text of that stripped prompt.
C6_PreviewCreated ==
    [][ (db /\ Answered("generate_preview") /\ ~Blank(last'.prompt)) =>
            LET new == video'[Len(video')]
                url == UrlOf(Trimmed(last'.prompt))
            IN  /\ last'.code = 200
                /\ Len(video') = Len(video) + 1
                /\ SubSeq(video', 1, Len(video)) = video
                /\ DOMAIN new = {"_id", "prompt", "preview_image_url", "status"}
                /\ new.status = "preview"
                /\ new.prompt = Trimmed(last'.prompt)
                /\ new.preview_image_url = url
                /\ \A i \in 1..Len(video) : video[i]._id # new._id
                /\ last'.body = <<[id |-> StrOid(new._id), preview_image_url |-> url,
                                   status |-> "preview"]>>
      ]_vars

\* C6 witness: a prompt with leading whitespace and more than 40 characters
\* after stripping was accepted, its display text cut and marked.
C6_Witness ==
    /\ last.op = "generate_preview" /\ last.code = 200
    /\ last.prompt[1] \in {" ", "\t", "\n"}
    /\ Len(Trimmed(last.prompt)) > 40
    /\ Len(last.body[1].preview_image_url) = 44

\* C7: with a live store connection, list_videos(N) answers 200 with exactly
\* min(N, k) of the k stored records, whatever their status, each with its
\* identifier under id (and no _id), and leaves the store as it was.
C7_ListVideos ==
    [][ (db /\ Answered("list_videos")) =>
            LET body == last'.body
                n == IF last'.limit < Len(video) THEN last'.limit ELSE Len(video)
            IN  /\ last'.code = 200
                /\ Len(body) = n
                /\ \A i \in 1..Len(body) :
                      /\ "id" \in DOMAIN body[i]
                      /\ "_id" \notin DOMAIN body[i]
                      /\ \E j \in 1..Len(video) :
                            /\ body[i].id = StrOid(video[j]._id)
                            /\ \A f \in DOMAIN video[j] \ {"_id"} :
                                  f \in DOMAIN body[i] /\ body[i][f] = video[j][f]
                            /\ DOMAIN body[i] \ {"id"} = DOMAIN video[j] \ {"_id"}
                /\ \A i, j \in 1..Len(body) : i # j => body[i].id # body[j].id
                /\ video' = video
      ]_vars

\* C7 witness: list_videos(1) on a store of two records returned one record,
\* a ready one.
C7_Witness ==
    /\ last.op = "list_videos" /\ last.code = 200 /\ last.limit = 1
    /\ Len(video) = 2
    /\ Len(last.body) = 1
    /\ last.body[1].status = "ready"

\* C9 as stated: with no store connection, the response to a start_video or a
\* list_videos request is 500 and the request made no store round-trip.
C9_AsStated ==
    (~db /\ last.op \in {"start_video", "list_videos"}) =>
        last.code = 500 /\ last.trips = 0

\* C9 amended: with no store connection, a start_video request with a
\* non-empty video_id and every list_videos request are answered 500
\* "Database not available" without a store round-trip (an empty video_id is
\* answered 400 first); every client can send its next request, and no step
\* changes the connection or the store.
C9_StoreUnavailable ==
    [][ /\ db' = db
        /\ ~db =>
              /\ video' = video
              /\ \A p \in Clients : pc'[p] = "idle"
              /\ (Answered("start_video") /\ last'.video_id # <<>>) =>
                    /\ last'.code = 500
                    /\ last'.detail = "Database not available"
                    /\ last'.trips = 0
              /\ (Answered("start_video") /\ last'.video_id = <<>>) => last'.code = 400
              /\ Answered("list_videos") =>
                    /\ last'.code = 500
                    /\ last'.detail = "Database not available"
                    /\ last'.trips = 0
      ]_vars

\* C9 witness: with no store connection a start_video request with a
\* malformed id was answered 500.
C9_Witness ==
    /\ ~db
    /\ last.op = "start_video" /\ last.code = 500
    /\ last.video_id # <<>> /\ ~WellFormedId(last.video_id)

\* C10: the update_one of start_video changes, in the one record with the
\* request's identifier, nothing but status and video_url, changes no other
\* record and keeps the number of records; no step of a start_video request
\* adds a record; over every step each record keeps its identifier, prompt
\* and preview_image_url, and no two records share an identifier.
C10_Frame ==
    [][ /\ \A p \in Clients : (pc[p] = "update" /\ pc'[p] = "reread") =>
              /\ Len(video') = Len(video)
              /\ \A i \in 1..Len(video) :
                    IF video[i]._id = cur[p]
                    THEN /\ DOMAIN video'[i] = DOMAIN video[i] \cup {"status", "video_url"}
                         /\ \A f \in DOMAIN video[i] \ {"status", "video_url"} :
                               video'[i][f] = video[i][f]
                         /\ video'[i].status = "ready"
                    ELSE video'[i] = video[i]
        /\ pc' # pc => Len(video') = Len(video)
        /\ Len(video') >= Len(video)
        /\ \A i \in 1..Len(video) :
              /\ video'[i]._id = video[i]._id
              /\ "prompt" \in DOMAIN video'[i] /\ video'[i].prompt = video[i].prompt
              /\ "preview_image_url" \in DOMAIN video'[i]
              /\ video'[i].preview_image_url = video[i].preview_image_url
        /\ \A i, j \in 1..Len(video') : i # j => video'[i]._id # video'[j]._id
      ]_vars

\* C10 witness: a start_video request is past its update_one; its record is
\* ready and another record, with another prompt, is still in preview.
C10_Witness ==
    \E p \in Clients :
        /\ pc[p] = "reread"
        /\ \E i, j \in 1..Len(video) :
              /\ video[i]._id = cur[p] /\ video[i].status = "ready"
              /\ video[j].status = "preview" /\ video[j].prompt # video[i].prompt

====
